---------------------------- MODULE Spec2Model ----------------------------
(***************************************************************************)
(* State-machine model of the FIDO2 authenticator service:                 *)
(*   - the protocol orchestrator  (fido2-service/src/authenticator.rs,     *)
(*     Authenticator::make_credential / get_assertion / get_info / wink),  *)
(*   - the credential engine      (fido2-service/src/storage.rs,           *)
(*     SoftwareCryptoStore::make_credential / attest / assert /            *)
(*     list_discoverable_credentials) over a credential storage with a     *)
(*     by-id map and a (rp, user) lookup index                             *)
(*     (authenticator.rs, tests::InMemorySecretStore).                     *)
(*                                                                         *)
(* A caller runs one invocation at a time.  An invocation is a small       *)
(* program counter machine whose suspension points are the awaits of the   *)
(* code: the presence gate and the engine calls.  The engine's Mutex is    *)
(* modelled with its holder and its poison flag.                           *)
(***************************************************************************)
EXTENDS Integers, Sequences, FiniteSets, TLC

(***************************************************************************)
(* Bounds of the model.                                                    *)
(***************************************************************************)
\* longest pub_key_cred_params list a request carries
MaxAlgs == 2
\* number of credentials the random source is asked to generate
MaxCreds == 2

(***************************************************************************)
(* Input sets.                                                             *)
(***************************************************************************)
Callers == {"c1", "c2"}
RelyingParties == {"example.com", "other.org"}
UserHandles == {"u1", "u2"}
ClientDataHashes == {"h1", "h2"}
ES256 == "ES256"
Algorithms == {ES256, "RS256"}

\* all pub_key_cred_params lists of length 0..MaxAlgs
AlgLists == UNION {[1..n -> Algorithms] : n \in 0..MaxAlgs}

\* MakeCredentialCommand; an Option field is modelled by its is_some().
\* extensions and pin_uv_auth_protocol are bound to `_` and options is never
\* read by the code (authenticator.rs 187-190, 216-219).
MakeCredentialCommands ==
    [client_data_hash : ClientDataHashes,
     rp : RelyingParties,
     user : UserHandles,
     pub_key_cred_params : AlgLists,
     exclude_list : BOOLEAN,
     pin_uv_auth_param : BOOLEAN,
     enterprise_attestation : BOOLEAN]

GetAssertionCommands ==
    [rp_id : RelyingParties, client_data_hash : ClientDataHashes]

\* MakeCredentialCommand with its three remaining fields: options (None, or
\* a map that sets "rk" or "uv"), extensions (is_some()) and
\* pin_uv_auth_protocol (None = 0, or the protocol version), over one client
\* data hash and user and the algorithm lists of length one
OptionCommands ==
    [client_data_hash : {"h1"},
     rp : RelyingParties,
     user : {"u1"},
     pub_key_cred_params : [1..1 -> Algorithms],
     exclude_list : BOOLEAN,
     pin_uv_auth_param : BOOLEAN,
     enterprise_attestation : BOOLEAN,
     options : {"None", "rk", "uv"},
     extensions : BOOLEAN,
     pin_uv_auth_protocol : 0..2]

\* arguments of a direct call of the engine's attest / assert
EngineCalls ==
    [rp_id : RelyingParties,
     credential_handle : 1..MaxCreds,
     client_data_hash : ClientDataHashes,
     user_present : BOOLEAN,
     user_verified : BOOLEAN]

\* descriptor lists of a direct call of list_specified_credentials: each
\* descriptor carries a credential id, stored or not, of any relying party
DescriptorLists == UNION {[1..n -> 1..MaxCreds] : n \in 0..MaxCreds}

(***************************************************************************)
(* Values.                                                                 *)
(***************************************************************************)
\* Authenticator.aaguid / Data.aaguid, the same value at construction
Aaguid == "aaguid"

\* Sha256::digest
Sha256(x) == <<"sha256", x>>

\* private key of the Attestation Source (Data.attestation_source)
AttestationSourceKey == <<"attestation_source", 0>>

\* private key material drawn for the n-th generated credential
CredentialKey(n) == <<"credential", n>>

\* public half of a private key
PublicKey(private_key) == <<"public", private_key>>

\* A signature names the message it was made over and the public key that
\* verifies it (it does not carry the private key).
Signature(private_key, auth_data, client_data_hash) ==
    [verifies_under |-> PublicKey(private_key),
     message |-> <<auth_data, client_data_hash>>]

\* ring's UnparsedPublicKey::verify, as called by
\* tests::make_credential_success: Ok exactly when the signature was made
\* over this message with the private key of this public key
Verify(public_key, auth_data, client_data_hash, sig) ==
    /\ sig.verifies_under = public_key
    /\ sig.message = <<auth_data, client_data_hash>>

Err(e) == [status |-> "Err", error |-> e]
Panic == [status |-> "Panic"]
NoResult == [status |-> "None"]
NoRequest == [op |-> "none"]

\* locals of Authenticator::make_credential
InitLocals ==
    [pk_parameters |-> 0, up |-> FALSE, uv |-> FALSE,
     present |-> "none", credential |-> 0]

VARIABLES
    pc,         \* per caller: where its invocation is suspended
    req,        \* per caller: the operation invoked and its command
    loc,        \* per caller: the locals of Authenticator::make_credential
    result,     \* per caller: what the invocation returned
    hist,       \* per caller: the collaborator calls the invocation made, in order
    keys,       \* storage: CredentialId -> PrivateKeyCredentialSource
    id_lookup,  \* storage: (rp, user) -> CredentialId, 0 when absent
    rng,        \* number of credential ids the random source has issued
    lock,       \* holder of the engine's Mutex, "free" when not held
    poisoned    \* the Mutex's poison flag

vars == <<pc, req, loc, result, hist, keys, id_lookup, rng, lock, poisoned>>

Init ==
    /\ pc = [p \in Callers |-> "idle"]
    /\ req = [p \in Callers |-> NoRequest]
    /\ loc = [p \in Callers |-> InitLocals]
    /\ result = [p \in Callers |-> NoResult]
    /\ hist = [p \in Callers |-> <<>>]
    /\ keys = <<>>
    /\ id_lookup = [k \in RelyingParties \X UserHandles |-> 0]
    /\ rng = 0
    /\ lock = "free"
    /\ poisoned = FALSE

(***************************************************************************)
(* Orchestrator: Authenticator::make_credential, steps 1-12.               *)
(***************************************************************************)
\* mutant of FirstSupported: the last ES256 entry instead of the first
LastSupported(params) ==
    LET S == {i \in 1..Len(params) : params[i] = ES256}
    IN  IF S = {} THEN 0 ELSE CHOOSE i \in S : \A j \in S : j <= i

\* step 3: position of the first ES256 entry of the list, 0 when there is none
\* (iter().filter(alg == ES256).next())
FirstSupported(params) ==
    LET S == {i \in 1..Len(params) : params[i] = ES256}
    IN  IF S = {} THEN 0 ELSE CHOOSE i \in S : \A j \in S : i <= j

\* mutant of Gates: the exclude-list gate (step 12) is missing
GatesWithoutExcludeList(cmd) ==
    IF cmd.pin_uv_auth_param THEN "InvalidParameter"
    ELSE IF FirstSupported(cmd.pub_key_cred_params) = 0 THEN "UnsupportedAlgorithm"
    ELSE IF cmd.enterprise_attestation THEN "InvalidParameter"
    ELSE "pass"

\* mutant of Gates: the algorithm is selected before the PIN/UV gate
GatesAlgorithmFirst(cmd) ==
    IF FirstSupported(cmd.pub_key_cred_params) = 0 THEN "UnsupportedAlgorithm"
    ELSE IF cmd.pin_uv_auth_param THEN "InvalidParameter"
    ELSE IF cmd.enterprise_attestation THEN "InvalidParameter"
    ELSE IF cmd.exclude_list THEN "InvalidParameter"
    ELSE "pass"

\* mutant of Gates: a request whose options ask for user verification is
\* rejected (step 5 acts on the "uv" option)
GatesReadingOptions(cmd) ==
    IF cmd.pin_uv_auth_param THEN "InvalidParameter"
    ELSE IF FirstSupported(cmd.pub_key_cred_params) = 0 THEN "UnsupportedAlgorithm"
    ELSE IF "options" \in DOMAIN cmd /\ cmd.options = "uv" THEN "UnsupportedOption"
    ELSE IF cmd.enterprise_attestation THEN "InvalidParameter"
    ELSE IF cmd.exclude_list THEN "InvalidParameter"
    ELSE "pass"

\* the hard gates in the order of the code; "pass" when none rejects
Gates(cmd) ==
    IF cmd.pin_uv_auth_param THEN "InvalidParameter"
    ELSE IF FirstSupported(cmd.pub_key_cred_params) = 0 THEN "UnsupportedAlgorithm"
    ELSE IF cmd.enterprise_attestation THEN "InvalidParameter"
    ELSE IF cmd.pin_uv_auth_param THEN "InvalidParameter"
    ELSE IF cmd.exclude_list THEN "InvalidParameter"
    ELSE "pass"

\* invocations that passed the gates and have not yet drawn their credential
Pending ==
    Cardinality({q \in Callers : /\ req[q].op = "make_credential"
                                 /\ pc[q] \in {"approve", "mc_lock", "mc_body"}})

\* mutant of MakeCredential: the engine's lock is taken when the request has
\* passed the gates and is held across the await on the presence gate
MakeCredentialLockFirst(p, cmd) ==
    /\ pc[p] = "idle"
    /\ lock = "free"
    /\ Gates(cmd) = "pass" => rng + Pending < MaxCreds
    /\ req' = [req EXCEPT ![p] = [op |-> "make_credential", cmd |-> cmd]]
    /\ loc' = [loc EXCEPT ![p].pk_parameters =
                    IF cmd.pin_uv_auth_param THEN 0
                    ELSE FirstSupported(cmd.pub_key_cred_params)]
    /\ IF Gates(cmd) # "pass"
       THEN /\ pc' = [pc EXCEPT ![p] = "done"]
            /\ result' = [result EXCEPT ![p] = Err(Gates(cmd))]
            /\ lock' = lock
       ELSE /\ pc' = [pc EXCEPT ![p] = "approve"]
            /\ result' = result
            /\ lock' = p
    /\ UNCHANGED <<hist, keys, id_lookup, rng, poisoned>>

\* the call, up to the first await (or the early return)
MakeCredential(p, cmd) ==
    /\ pc[p] = "idle"
    /\ Gates(cmd) = "pass" => rng + Pending < MaxCreds
    /\ req' = [req EXCEPT ![p] = [op |-> "make_credential", cmd |-> cmd]]
    /\ loc' = [loc EXCEPT ![p].pk_parameters =
                    IF cmd.pin_uv_auth_param THEN 0
                    ELSE FirstSupported(cmd.pub_key_cred_params)]
    /\ IF Gates(cmd) # "pass"
       THEN /\ pc' = [pc EXCEPT ![p] = "done"]
            /\ result' = [result EXCEPT ![p] = Err(Gates(cmd))]
       ELSE /\ pc' = [pc EXCEPT ![p] = "approve"]
            /\ result' = result
    /\ UNCHANGED <<hist, keys, id_lookup, rng, lock, poisoned>>

\* mutant of ApproveMakeCredential: the gate's error is not propagated
ApproveMakeCredentialNoTry(p, answer) ==
    /\ pc[p] = "approve"
    /\ hist' = [hist EXCEPT ![p] = Append(@, "approve_make_credential")]
    /\ pc' = [pc EXCEPT ![p] = "mc_lock"]
    /\ result' = result
    /\ loc' = [loc EXCEPT ![p].present = answer, ![p].up = TRUE]
    /\ UNCHANGED <<req, keys, id_lookup, rng, lock, poisoned>>

\* step 13: presence.approve_make_credential(&rp.name).await? ; up = true
ApproveMakeCredential(p, answer) ==
    /\ pc[p] = "approve"
    /\ hist' = [hist EXCEPT ![p] = Append(@, "approve_make_credential")]
    /\ IF answer = "Err"
       THEN /\ pc' = [pc EXCEPT ![p] = "done"]
            /\ result' = [result EXCEPT ![p] = Err("Presence")]
            /\ loc' = [loc EXCEPT ![p].present = answer]
       ELSE /\ pc' = [pc EXCEPT ![p] = "mc_lock"]
            /\ result' = result
            /\ loc' = [loc EXCEPT ![p].present = answer, ![p].up = TRUE]
    /\ UNCHANGED <<req, keys, id_lookup, rng, lock, poisoned>>

(***************************************************************************)
(* Credential storage: tests::InMemorySecretStore.                         *)
(***************************************************************************)
\* mutant of PutKeys: the record the new one supersedes is removed
PutKeysDropSuperseded(k, credential) ==
    LET kept == {i \in DOMAIN k :
                    ~ /\ k[i].rp_id = credential.rp_id
                      /\ k[i].user_handle = credential.user_handle}
    IN  [i \in kept \cup {credential.id} |->
            IF i = credential.id THEN credential ELSE k[i]]

\* keys.insert(credential.id, credential)
PutKeys(k, credential) ==
    [i \in DOMAIN k \cup {credential.id} |->
        IF i = credential.id THEN credential ELSE k[i]]

\* mutant of PutLookup: an entry the pair already has is kept
PutLookupKeepFirst(l, credential) ==
    IF l[<<credential.rp_id, credential.user_handle>>] # 0 THEN l
    ELSE [l EXCEPT ![<<credential.rp_id, credential.user_handle>>] =
                credential.id]

\* id_lookup.entry(rp_id).or_default().insert(user_handle, id)
PutLookup(l, credential) ==
    [l EXCEPT ![<<credential.rp_id, credential.user_handle>>] = credential.id]

\* get: Some(record) exactly when the id is a key of the by-id map
Stored(k, credential_handle) == credential_handle \in DOMAIN k

\* CredentialStorage::list_discoverable: the handles the lookup index holds
\* for the relying party, one per user handle, in the order of `users`
RECURSIVE ListIndex(_, _, _)
ListIndex(l, rp_id, users) ==
    IF users = {} THEN <<>>
    ELSE LET u == CHOOSE x \in users : TRUE
             rest == ListIndex(l, rp_id, users \ {u})
         IN  IF l[<<rp_id, u>>] = 0 THEN rest ELSE <<l[<<rp_id, u>>]>> \o rest

list_discoverable(l, rp_id) == ListIndex(l, rp_id, UserHandles)

\* CredentialStorage::list_specified: of the descriptors of the list, in the
\* list's order, those whose credential is stored and bound to the relying
\* party
list_specified(k, rp_id, credential_list) ==
    SelectSeq(credential_list,
              LAMBDA h : Stored(k, h) /\ k[h].rp_id = rp_id)

(***************************************************************************)
(* Credential engine: SoftwareCryptoStore.                                 *)
(*                                                                         *)
(* The orchestrator reaches its engine through make_credential and attest  *)
(* (authenticator.rs 277-286); the engine modelled behind these two calls  *)
(* is SoftwareCryptoStore of storage.rs.  The tests of authenticator.rs    *)
(* build their authenticator over another engine, SimpleSecrets, whose     *)
(* source is not among the files modelled: what the model says of a        *)
(* signature is what SoftwareCryptoStore produces.                         *)
(***************************************************************************)
\* PrivateKeyCredentialSource::generate: the n-th draw of the random source
\* gives a fresh credential id and fresh key material
Generate(parameters, rp, user_handle, n) ==
    [alg |-> parameters, rp_id |-> rp, user_handle |-> user_handle,
     id |-> n, private_key |-> CredentialKey(n)]

\* self.0.lock().unwrap(), the first statement of the engine operation
\* `call`: a poisoned Mutex makes unwrap panic inside the operation, which
\* was called all the same, and the guard is dropped at once; otherwise the
\* operation goes on to its body, which records the call when it ends
Lock(p, locked, call) ==
    /\ lock = "free"
    /\ IF poisoned
       THEN /\ pc' = [pc EXCEPT ![p] = "done"]
            /\ result' = [result EXCEPT ![p] = Panic]
            /\ hist' = [hist EXCEPT ![p] = Append(@, call)]
            /\ lock' = lock
       ELSE /\ pc' = [pc EXCEPT ![p] = locked]
            /\ result' = result
            /\ hist' = hist
            /\ lock' = p
    /\ UNCHANGED <<req, loc, keys, id_lookup, rng, poisoned>>

\* step 16-18: secrets.make_credential(pk_parameters, &rp.id, &user.id)
StoreMakeCredentialLock(p) ==
    /\ pc[p] = "mc_lock"
    /\ Lock(p, "mc_body", "make_credential")

\* generate, handle, put_discoverable, Ok(handle); `?` returns the error of
\* generate or of put_discoverable, the guard is dropped on every return.
\* An id whose record is not persisted is dropped inside the engine and is
\* not counted as issued.
StoreMakeCredentialBody(p, fault) ==
    LET cmd == req[p].cmd
        key == Generate(cmd.pub_key_cred_params[loc[p].pk_parameters],
                        cmd.rp, cmd.user, rng + 1)
    IN  /\ pc[p] = "mc_body"
        /\ lock = p
        /\ fault \in {"none", "generate", "put"}
        /\ hist' = [hist EXCEPT ![p] = Append(@, "make_credential")]
        /\ lock' = "free"
        /\ CASE fault = "generate" ->
                  /\ pc' = [pc EXCEPT ![p] = "done"]
                  /\ result' = [result EXCEPT ![p] = Err("Unspecified")]
                  /\ UNCHANGED <<loc, keys, id_lookup, rng>>
             [] fault = "put" ->
                  /\ pc' = [pc EXCEPT ![p] = "done"]
                  /\ result' = [result EXCEPT ![p] = Err("Storage")]
                  /\ UNCHANGED <<loc, keys, id_lookup, rng>>
             [] fault = "none" ->
                  /\ pc' = [pc EXCEPT ![p] = "at_lock"]
                  /\ keys' = PutKeys(keys, key)
                  /\ id_lookup' = PutLookup(id_lookup, key)
                  /\ rng' = rng + 1
                  /\ loc' = [loc EXCEPT ![p].credential = key.id]
                  /\ result' = result
        /\ UNCHANGED <<req, poisoned>>

\* mutant of EngineArgs: make_credential attests the handle issued last
\* instead of the one its own engine call returned
EngineArgsLastIssued(p) ==
    IF req[p].op = "make_credential"
    THEN [rp_id |-> req[p].cmd.rp,
          credential_handle |-> rng,
          client_data_hash |-> req[p].cmd.client_data_hash,
          user_present |-> loc[p].up,
          user_verified |-> loc[p].uv]
    ELSE req[p].cmd

\* the arguments of the attest / assert call an invocation makes
EngineArgs(p) ==
    IF req[p].op = "make_credential"
    THEN [rp_id |-> req[p].cmd.rp,
          credential_handle |-> loc[p].credential,
          client_data_hash |-> req[p].cmd.client_data_hash,
          user_present |-> loc[p].up,
          user_verified |-> loc[p].uv]
    ELSE req[p].cmd

\* mutant of AttestAuthData: the flags given by the caller are not copied
AttestAuthDataNoPresence(a, key) ==
    [rp_id_hash |-> Sha256(a.rp_id),
     user_present |-> FALSE,
     user_verified |-> a.user_verified,
     sign_count |-> 1,
     attested_credential_data |->
        <<[aaguid |-> Aaguid,
           credential_id |-> a.credential_handle,
           credential_public_key |-> PublicKey(key.private_key)]>>]

\* mutant of AttestAuthData: the attested block carries the stored private
\* key instead of its public half
AttestAuthDataPrivateKey(a, key) ==
    [rp_id_hash |-> Sha256(a.rp_id),
     user_present |-> a.user_present,
     user_verified |-> a.user_verified,
     sign_count |-> 1,
     attested_credential_data |->
        <<[aaguid |-> Aaguid,
           credential_id |-> a.credential_handle,
           credential_public_key |-> key.private_key]>>]

\* AuthenticatorData built by attest (storage.rs 97-107)
AttestAuthData(a, key) ==
    [rp_id_hash |-> Sha256(a.rp_id),
     user_present |-> a.user_present,
     user_verified |-> a.user_verified,
     sign_count |-> 1,
     attested_credential_data |->
        <<[aaguid |-> Aaguid,
           credential_id |-> a.credential_handle,
           credential_public_key |-> PublicKey(key.private_key)]>>]

\* the private key attest signs with (storage.rs 108-111)
AttestSigningKey(key) == AttestationSourceKey

\* AttestationStatement::Packed (storage.rs 114-125)
AttestStatement(a, key) ==
    [alg |-> key.alg,
     sig |-> Signature(AttestSigningKey(key), AttestAuthData(a, key),
                       a.client_data_hash),
     x5c |-> PublicKey(AttestationSourceKey)]

\* AuthenticatorData built by assert (storage.rs 143-149)
AssertAuthData(a, key) ==
    [rp_id_hash |-> Sha256(a.rp_id),
     user_present |-> a.user_present,
     user_verified |-> a.user_verified,
     sign_count |-> 2,
     attested_credential_data |-> <<>>]

\* mutant of AssertSigningKey: assert signs with the Attestation Source's key
AssertSigningKeySource(key) == AttestationSourceKey

\* the private key assert signs with (storage.rs 151)
AssertSigningKey(key) == key.private_key

\* step 19: secrets.attest(&rp.id, &credential, &client_data_hash, up, uv)
StoreAttestLock(p) ==
    /\ pc[p] = "at_lock"
    /\ Lock(p, "at_body", "attest")

\* An engine body that ends by a panic (todo!(), unwrap of an Err) unwinds
\* while the guard is held: the Mutex is released and poisoned.
\* outcome: "Err" a storage error returned by `?`, "Panic", or "Ok"
EngineOutcome(a, fault) ==
    IF fault = "get" THEN "Err"
    ELSE IF ~Stored(keys, a.credential_handle) THEN "Panic"
    ELSE IF fault \in {"try_into", "sign"} THEN "Panic"
    ELSE "Ok"

StoreAttestBody(p, fault) ==
    LET a == EngineArgs(p)
        out == EngineOutcome(a, fault)
    IN  /\ pc[p] = "at_body"
        /\ lock = p
        /\ fault \in {"none", "get", "try_into", "sign"}
        /\ hist' = [hist EXCEPT ![p] = Append(@, "attest")]
        /\ lock' = "free"
        /\ pc' = [pc EXCEPT ![p] = "done"]
        /\ poisoned' = (poisoned \/ out = "Panic")
        /\ result' = [result EXCEPT ![p] =
              CASE out = "Err" -> Err("Storage")
                [] out = "Panic" -> Panic
                [] out = "Ok" ->
                     [status |-> "Ok",
                      auth_data |-> AttestAuthData(a, keys[a.credential_handle]),
                      att_stmt |-> AttestStatement(a, keys[a.credential_handle])]]
        /\ UNCHANGED <<req, loc, keys, id_lookup, rng>>

StoreAssertLock(p) ==
    /\ pc[p] = "as_lock"
    /\ Lock(p, "as_body", "assert")

StoreAssertBody(p, fault) ==
    LET a == EngineArgs(p)
        out == EngineOutcome(a, fault)
    IN  /\ pc[p] = "as_body"
        /\ lock = p
        /\ fault \in {"none", "get", "try_into", "sign"}
        /\ hist' = [hist EXCEPT ![p] = Append(@, "assert")]
        /\ lock' = "free"
        /\ pc' = [pc EXCEPT ![p] = "done"]
        /\ poisoned' = (poisoned \/ out = "Panic")
        /\ result' = [result EXCEPT ![p] =
              CASE out = "Err" -> Err("Storage")
                [] out = "Panic" -> Panic
                [] out = "Ok" ->
                     [status |-> "Ok",
                      auth_data |-> AssertAuthData(a, keys[a.credential_handle]),
                      signature |->
                         Signature(AssertSigningKey(keys[a.credential_handle]),
                                   AssertAuthData(a, keys[a.credential_handle]),
                                   a.client_data_hash)]]
        /\ UNCHANGED <<req, loc, keys, id_lookup, rng>>

\* a direct call of the engine's attest by a caller holding any handle
CallAttest(p, a) ==
    /\ pc[p] = "idle"
    /\ req' = [req EXCEPT ![p] = [op |-> "attest", cmd |-> a]]
    /\ pc' = [pc EXCEPT ![p] = "at_lock"]
    /\ UNCHANGED <<loc, result, hist, keys, id_lookup, rng, lock, poisoned>>

\* a direct call of the engine's assert by a caller holding any handle
CallAssert(p, a) ==
    /\ pc[p] = "idle"
    /\ req' = [req EXCEPT ![p] = [op |-> "assert", cmd |-> a]]
    /\ pc' = [pc EXCEPT ![p] = "as_lock"]
    /\ UNCHANGED <<loc, result, hist, keys, id_lookup, rng, lock, poisoned>>

\* a direct call of the engine's list_discoverable_credentials
CallList(p, rp_id) ==
    /\ pc[p] = "idle"
    /\ req' = [req EXCEPT ![p] = [op |-> "list", cmd |-> [rp_id |-> rp_id]]]
    /\ pc' = [pc EXCEPT ![p] = "ls_lock"]
    /\ UNCHANGED <<loc, result, hist, keys, id_lookup, rng, lock, poisoned>>

StoreListLock(p) ==
    /\ pc[p] = "ls_lock"
    /\ Lock(p, "ls_body", "list_discoverable_credentials")

\* `this.store.list_discoverable(rp_id)`: the storage's answer, or its error,
\* is returned as it is; the guard is dropped on return
StoreListBody(p, fault) ==
    /\ pc[p] = "ls_body"
    /\ lock = p
    /\ fault \in {"none", "list"}
    /\ hist' = [hist EXCEPT ![p] = Append(@, "list_discoverable_credentials")]
    /\ lock' = "free"
    /\ pc' = [pc EXCEPT ![p] = "done"]
    /\ result' = [result EXCEPT ![p] =
                    IF fault = "list" THEN Err("Storage")
                    ELSE [status |-> "Ok",
                          handles |-> list_discoverable(id_lookup,
                                                        req[p].cmd.rp_id)]]
    /\ UNCHANGED <<req, loc, keys, id_lookup, rng, poisoned>>

\* a direct call of the engine's list_specified_credentials
CallListSpecified(p, rp_id, credential_list) ==
    /\ pc[p] = "idle"
    /\ req' = [req EXCEPT ![p] =
                 [op |-> "list_specified",
                  cmd |-> [rp_id |-> rp_id,
                           credential_list |-> credential_list]]]
    /\ pc' = [pc EXCEPT ![p] = "lsp_lock"]
    /\ UNCHANGED <<loc, result, hist, keys, id_lookup, rng, lock, poisoned>>

StoreListSpecifiedLock(p) ==
    /\ pc[p] = "lsp_lock"
    /\ Lock(p, "lsp_body", "list_specified_credentials")

\* `this.store.list_specified(rp_id, credential_list)`: the storage's answer,
\* or its error, is returned as it is; the store is not written and the
\* guard is dropped on return
StoreListSpecifiedBody(p, fault) ==
    /\ pc[p] = "lsp_body"
    /\ lock = p
    /\ fault \in {"none", "list"}
    /\ hist' = [hist EXCEPT ![p] = Append(@, "list_specified_credentials")]
    /\ lock' = "free"
    /\ pc' = [pc EXCEPT ![p] = "done"]
    /\ result' = [result EXCEPT ![p] =
                    IF fault = "list" THEN Err("Storage")
                    ELSE [status |-> "Ok",
                          handles |-> list_specified(
                                          keys, req[p].cmd.rp_id,
                                          req[p].cmd.credential_list)]]
    /\ UNCHANGED <<req, loc, keys, id_lookup, rng, poisoned>>

(***************************************************************************)
(* Orchestrator: Authenticator::get_assertion.                             *)
(***************************************************************************)
\* `let credential: PublicKeyCredentialDescriptor = todo!();` is the first
\* statement evaluated: every call panics there, before any collaborator is
\* called; the statements after it are never reached.
GetAssertion(p, cmd) ==
    /\ pc[p] = "idle"
    /\ req' = [req EXCEPT ![p] = [op |-> "get_assertion", cmd |-> cmd]]
    /\ pc' = [pc EXCEPT ![p] = "done"]
    /\ result' = [result EXCEPT ![p] = Panic]
    /\ UNCHANGED <<loc, hist, keys, id_lookup, rng, lock, poisoned>>

(***************************************************************************)
(* Orchestrator: Authenticator::get_info and Authenticator::wink.          *)
(***************************************************************************)
\* mutant of get_info_internal: the remaining capacity is computed from the
\* store instead of being the fixed Some(0)
GetInfoRemainingFromStore ==
    [versions |-> <<"FIDO_2_1", "U2F_V2">>,
     aaguid |-> Aaguid,
     algorithms |-> <<ES256>>,
     remaining_discoverable_credentials |-> Cardinality(DOMAIN keys)]

\* get_info_internal: the fields that are not None
get_info_internal ==
    [versions |-> <<"FIDO_2_1", "U2F_V2">>,
     aaguid |-> Aaguid,
     algorithms |-> <<ES256>>,
     remaining_discoverable_credentials |-> 0]

\* get_info is not async: it returns Ok(get_info_internal()) in one step
GetInfo(p) ==
    /\ pc[p] = "idle"
    /\ req' = [req EXCEPT ![p] = [op |-> "get_info"]]
    /\ pc' = [pc EXCEPT ![p] = "done"]
    /\ result' = [result EXCEPT ![p] =
                    [status |-> "Ok", response |-> get_info_internal]]
    /\ UNCHANGED <<loc, hist, keys, id_lookup, rng, lock, poisoned>>

\* mutant of WinkResult: the gate's error is dropped
WinkResultIgnored(answer) == [status |-> "Ok"]

\* `self.presence.wink().await?; Ok(())`
WinkResult(answer) ==
    IF answer = "Err" THEN Err("Presence") ELSE [status |-> "Ok"]

\* wink, up to its await on the presence gate
Wink(p) ==
    /\ pc[p] = "idle"
    /\ req' = [req EXCEPT ![p] = [op |-> "wink"]]
    /\ pc' = [pc EXCEPT ![p] = "wink"]
    /\ UNCHANGED <<loc, result, hist, keys, id_lookup, rng, lock, poisoned>>

\* the gate's wink answers; loc.present keeps the answer
PresenceWink(p, answer) ==
    /\ pc[p] = "wink"
    /\ hist' = [hist EXCEPT ![p] = Append(@, "wink")]
    /\ loc' = [loc EXCEPT ![p].present = answer]
    /\ result' = [result EXCEPT ![p] = WinkResult(answer)]
    /\ pc' = [pc EXCEPT ![p] = "done"]
    /\ UNCHANGED <<req, keys, id_lookup, rng, lock, poisoned>>

\* the caller takes the result; the invocation's frame is gone
Return(p) ==
    /\ pc[p] = "done"
    /\ pc' = [pc EXCEPT ![p] = "idle"]
    /\ req' = [req EXCEPT ![p] = NoRequest]
    /\ loc' = [loc EXCEPT ![p] = InitLocals]
    /\ result' = [result EXCEPT ![p] = NoResult]
    /\ hist' = [hist EXCEPT ![p] = <<>>]
    /\ UNCHANGED <<keys, id_lookup, rng, lock, poisoned>>

(***************************************************************************)
(* Specifications.                                                         *)
(***************************************************************************)
\* the caller that issues the commands of Spec and SpecEngine, one command
\* at a time
Serial == {"c1"}

\* the requests that reach the engine
AcceptedCommands == {cmd \in MakeCredentialCommands : Gates(cmd) = "pass"}

\* Spec: the orchestrator's API; storage and key generation may return
\* errors, key conversion and signing may fail.
Next ==
    \/ \E p \in Serial : \E cmd \in MakeCredentialCommands : MakeCredential(p, cmd)
    \/ \E p \in Serial : \E answer \in {"Ok(true)", "Ok(false)", "Err"} :
          ApproveMakeCredential(p, answer)
    \/ \E p \in Serial : StoreMakeCredentialLock(p)
    \/ \E p \in Serial : \E fault \in {"none", "generate", "put"} :
          StoreMakeCredentialBody(p, fault)
    \/ \E p \in Serial : StoreAttestLock(p)
    \/ \E p \in Serial : \E fault \in {"none", "get", "try_into", "sign"} :
          StoreAttestBody(p, fault)
    \/ \E p \in Serial : \E cmd \in GetAssertionCommands : GetAssertion(p, cmd)
    \/ \E p \in Serial : GetInfo(p)
    \/ \E p \in Serial : Wink(p)
    \/ \E p \in Serial : \E answer \in {"Ok", "Err"} : PresenceWink(p, answer)
    \/ \E p \in Serial : Return(p)

Spec == Init /\ [][Next]_vars

\* SpecEngine: the engine under the orchestrator's accepted requests and
\* under direct calls of attest and assert with any handle and of the two
\* list operations; key conversion and signing may fail as well.
NextEngine ==
    \/ \E p \in Serial : \E cmd \in AcceptedCommands : MakeCredential(p, cmd)
    \/ \E p \in Serial : \E answer \in {"Ok(true)", "Ok(false)", "Err"} :
          ApproveMakeCredential(p, answer)
    \/ \E p \in Serial : StoreMakeCredentialLock(p)
    \/ \E p \in Serial : \E fault \in {"none", "generate", "put"} :
          StoreMakeCredentialBody(p, fault)
    \/ \E p \in Serial : StoreAttestLock(p)
    \/ \E p \in Serial : \E fault \in {"none", "get", "try_into", "sign"} :
          StoreAttestBody(p, fault)
    \/ \E p \in Serial : \E a \in EngineCalls : CallAttest(p, a)
    \/ \E p \in Serial : \E a \in EngineCalls : CallAssert(p, a)
    \/ \E p \in Serial : StoreAssertLock(p)
    \/ \E p \in Serial : \E fault \in {"none", "get", "try_into", "sign"} :
          StoreAssertBody(p, fault)
    \/ \E p \in Serial : \E rp_id \in RelyingParties : CallList(p, rp_id)
    \/ \E p \in Serial : StoreListLock(p)
    \/ \E p \in Serial : \E fault \in {"none", "list"} : StoreListBody(p, fault)
    \/ \E p \in Serial : \E rp_id \in RelyingParties :
          \E credential_list \in DescriptorLists :
             CallListSpecified(p, rp_id, credential_list)
    \/ \E p \in Serial : StoreListSpecifiedLock(p)
    \/ \E p \in Serial : \E fault \in {"none", "list"} :
          StoreListSpecifiedBody(p, fault)
    \/ \E p \in Serial : Return(p)

SpecEngine == Init /\ [][NextEngine]_vars

\* SpecConcurrent: both callers invoke at once and their steps interleave
\* at the awaits and at the acquisitions of the engine's lock.  The commands
\* are the accepted ones with a fixed client data hash and algorithm list;
\* the direct calls of attest and assert name a handle the engine issued;
\* storage and key generation may return errors.
ConcurrentCommands ==
    {cmd \in AcceptedCommands : /\ cmd.client_data_hash = "h1"
                                /\ cmd.pub_key_cred_params = <<ES256>>}

ConcurrentCalls ==
    {a \in EngineCalls : /\ a.rp_id = "example.com"
                         /\ a.client_data_hash = "h1"
                         /\ a.user_present /\ ~a.user_verified}

IssuedCalls == {a \in ConcurrentCalls : Stored(keys, a.credential_handle)}

NextConcurrent ==
    \/ \E p \in Callers : \E cmd \in ConcurrentCommands : MakeCredential(p, cmd)
    \/ \E p \in Callers : \E answer \in {"Ok(true)", "Ok(false)", "Err"} :
          ApproveMakeCredential(p, answer)
    \/ \E p \in Callers : StoreMakeCredentialLock(p)
    \/ \E p \in Callers : \E fault \in {"none", "generate", "put"} :
          StoreMakeCredentialBody(p, fault)
    \/ \E p \in Callers : StoreAttestLock(p)
    \/ \E p \in Callers : \E fault \in {"none", "get"} : StoreAttestBody(p, fault)
    \/ \E p \in Callers : \E a \in IssuedCalls : CallAttest(p, a)
    \/ \E p \in Callers : \E a \in IssuedCalls : CallAssert(p, a)
    \/ \E p \in Callers : StoreAssertLock(p)
    \/ \E p \in Callers : \E fault \in {"none", "get"} : StoreAssertBody(p, fault)
    \/ \E p \in Callers : Return(p)

SpecConcurrent == Init /\ [][NextConcurrent]_vars

\* SpecOptions: the orchestrator's make_credential under requests that carry
\* options, extensions and a PIN/UV protocol version.
NextOptions ==
    \/ \E p \in Serial : \E cmd \in OptionCommands : MakeCredential(p, cmd)
    \/ \E p \in Serial : \E answer \in {"Ok(true)", "Ok(false)", "Err"} :
          ApproveMakeCredential(p, answer)
    \/ \E p \in Serial : StoreMakeCredentialLock(p)
    \/ \E p \in Serial : \E fault \in {"none", "generate", "put"} :
          StoreMakeCredentialBody(p, fault)
    \/ \E p \in Serial : StoreAttestLock(p)
    \/ \E p \in Serial : \E fault \in {"none", "get"} : StoreAttestBody(p, fault)
    \/ \E p \in Serial : Return(p)

SpecOptions == Init /\ [][NextOptions]_vars

\* SpecFair: concurrent make_credential invocations under fair scheduling.
\* An engine body has no await: the thread that holds the lock runs it to
\* its return (weak fairness).  A caller blocked in lock() acquires the lock
\* if it is free again and again (strong fairness: the lock is handed over
\* fairly).  Nothing makes the presence gate answer, and nothing makes a
\* caller invoke or take its result.
NextFair ==
    \/ \E p \in Callers : \E cmd \in ConcurrentCommands : MakeCredential(p, cmd)
    \/ \E p \in Callers : \E answer \in {"Ok(true)", "Ok(false)", "Err"} :
          ApproveMakeCredential(p, answer)
    \/ \E p \in Callers : StoreMakeCredentialLock(p)
    \/ \E p \in Callers : \E fault \in {"none", "generate", "put"} :
          StoreMakeCredentialBody(p, fault)
    \/ \E p \in Callers : StoreAttestLock(p)
    \/ \E p \in Callers : \E fault \in {"none", "get", "try_into", "sign"} :
          StoreAttestBody(p, fault)
    \/ \E p \in Callers : Return(p)

Fairness ==
    \A p \in Callers :
        /\ SF_vars(StoreMakeCredentialLock(p))
        /\ SF_vars(StoreAttestLock(p))
        /\ WF_vars(\E fault \in {"none", "generate", "put"} :
                      StoreMakeCredentialBody(p, fault))
        /\ WF_vars(\E fault \in {"none", "get", "try_into", "sign"} :
                      StoreAttestBody(p, fault))

SpecFair == Init /\ [][NextFair]_vars /\ Fairness

(***************************************************************************)
(* Vocabulary of the properties.                                           *)
(***************************************************************************)
IsMakeCredential(p) == req[p].op = "make_credential"
Done(p) == pc[p] = "done"
HasES256(cmd) == \E i \in 1..Len(cmd.pub_key_cred_params) :
                    cmd.pub_key_cred_params[i] = ES256
\* the request carries a parameter this authenticator does not support
Carries(cmd) ==
    cmd.pin_uv_auth_param \/ cmd.exclude_list \/ cmd.enterprise_attestation
\* the step in which caller p invokes make_credential
Invokes(p) ==
    /\ pc[p] = "idle"
    /\ pc'[p] # "idle"
    /\ req'[p].op = "make_credential"
StorageUnchanged == keys' = keys /\ id_lookup' = id_lookup

(***************************************************************************)
(* C1.  As claimed: every make_credential request that carries a PIN/UV     *)
(* auth param, an exclude list or an enterprise-attestation selector        *)
(* returns InvalidParameter, and the invocation persists no credential.     *)
(***************************************************************************)
C1_AsClaimed ==
    [][\A p \in Callers :
          (Invokes(p) /\ Carries(req'[p].cmd)) =>
             /\ pc'[p] = "done"
             /\ result'[p] = Err("InvalidParameter")
             /\ StorageUnchanged]_vars

(***************************************************************************)
(* C1, amended.  Every make_credential request that carries a PIN/UV auth   *)
(* param, an exclude list or an enterprise-attestation selector is rejected *)
(* at once and persists no credential; the error is InvalidParameter,       *)
(* except that a request with no PIN/UV auth param whose algorithm list has *)
(* no ES256 entry returns UnsupportedAlgorithm.                             *)
(***************************************************************************)
C1_CarriedParameterRejected ==
    [][\A p \in Callers :
          (Invokes(p) /\ Carries(req'[p].cmd)) =>
             /\ pc'[p] = "done"
             /\ result'[p] =
                   IF ~req'[p].cmd.pin_uv_auth_param /\ ~HasES256(req'[p].cmd)
                   THEN Err("UnsupportedAlgorithm")
                   ELSE Err("InvalidParameter")
             /\ StorageUnchanged]_vars

\* a request with an enterprise-attestation selector and an ES256 entry was
\* rejected with InvalidParameter
C1_Witness ==
    \E p \in Callers :
        /\ Done(p) /\ IsMakeCredential(p)
        /\ req[p].cmd.enterprise_attestation
        /\ ~req[p].cmd.pin_uv_auth_param
        /\ HasES256(req[p].cmd)
        /\ result[p] = Err("InvalidParameter")
        /\ loc[p].credential = 0

(***************************************************************************)
(* C2.  When several rejection conditions hold at once, the error is that   *)
(* of the earliest failing step in the order: 1 PIN/UV auth param           *)
(* (InvalidParameter), 2 no supported algorithm (UnsupportedAlgorithm),     *)
(* 3 enterprise attestation (InvalidParameter), 4 exclude list              *)
(* (InvalidParameter).                                                      *)
(***************************************************************************)
FailingSteps(cmd) ==
    {n \in 1..4 : \/ n = 1 /\ cmd.pin_uv_auth_param
                  \/ n = 2 /\ ~HasES256(cmd)
                  \/ n = 3 /\ cmd.enterprise_attestation
                  \/ n = 4 /\ cmd.exclude_list}
StepError(n) == IF n = 2 THEN "UnsupportedAlgorithm" ELSE "InvalidParameter"
EarliestFailing(cmd) ==
    CHOOSE n \in FailingSteps(cmd) : \A m \in FailingSteps(cmd) : n <= m

C2_EarliestGateDecides ==
    [][\A p \in Callers :
          (Invokes(p) /\ FailingSteps(req'[p].cmd) # {}) =>
             /\ pc'[p] = "done"
             /\ result'[p] = Err(StepError(EarliestFailing(req'[p].cmd)))]_vars

\* PIN param together with an empty algorithm list gave InvalidParameter
C2_Witness ==
    \E p \in Callers :
        /\ Done(p) /\ IsMakeCredential(p)
        /\ req[p].cmd.pin_uv_auth_param
        /\ req[p].cmd.pub_key_cred_params = <<>>
        /\ result[p] = Err("InvalidParameter")

(***************************************************************************)
(* C3.  A make_credential request that passes the PIN/UV gate and whose     *)
(* algorithm list has no ES256 entry returns UnsupportedAlgorithm, persists *)
(* no credential and does not ask the presence gate; when the list has an   *)
(* ES256 entry, the entry selected, and used for generation, is the first   *)
(* ES256 entry of the list.                                                 *)
(***************************************************************************)
IsFirstES256(params, i) ==
    /\ i \in 1..Len(params)
    /\ params[i] = ES256
    /\ \A j \in 1..(i - 1) : params[j] # ES256

C3_UnsupportedAlgorithm ==
    [][\A p \in Callers :
          /\ (Invokes(p) /\ ~req'[p].cmd.pin_uv_auth_param) =>
                IF HasES256(req'[p].cmd)
                THEN IsFirstES256(req'[p].cmd.pub_key_cred_params,
                                  loc'[p].pk_parameters)
                ELSE /\ pc'[p] = "done"
                     /\ result'[p] = Err("UnsupportedAlgorithm")
                     /\ hist'[p] = <<>>
                     /\ StorageUnchanged
          /\ (pc[p] = "mc_body" /\ keys' # keys) =>
                /\ IsFirstES256(req[p].cmd.pub_key_cred_params,
                                loc[p].pk_parameters)
                /\ keys'[loc'[p].credential].alg = ES256]_vars

\* a list whose ES256 entry is not its first entry, after generation
C3_Witness ==
    \E p \in Callers :
        /\ IsMakeCredential(p)
        /\ req[p].cmd.pub_key_cred_params = <<"RS256", ES256>>
        /\ loc[p].pk_parameters = 2
        /\ loc[p].credential # 0
        /\ keys[loc[p].credential].alg = ES256

\* a list without ES256 entry was rejected with UnsupportedAlgorithm
C3_WitnessRejected ==
    \E p \in Callers :
        /\ Done(p) /\ IsMakeCredential(p)
        /\ ~req[p].cmd.pin_uv_auth_param
        /\ req[p].cmd.pub_key_cred_params = <<"RS256">>
        /\ result[p] = Err("UnsupportedAlgorithm")
        /\ hist[p] = <<>>

(***************************************************************************)
(* C4.  In make_credential, when approve_make_credential returns a denial   *)
(* (false) or an error, the operation aborts: no credential is generated or *)
(* persisted and no attestation is returned; up is set to true, and the     *)
(* operation proceeds to generation, only when the gate returns approval.   *)
(***************************************************************************)
C4_DenialAborts ==
    \A p \in Callers :
        IsMakeCredential(p) =>
           /\ loc[p].present \in {"Ok(false)", "Err"} =>
                 /\ Done(p)
                 /\ result[p].status = "Err"
                 /\ loc[p].credential = 0
           /\ loc[p].up => loc[p].present = "Ok(true)"

(***************************************************************************)
(* C5.  For every make_credential request with no PIN/UV param, no          *)
(* enterprise-attestation selector, no exclude list, an algorithm list      *)
(* containing ES256 and an approving presence gate: the call succeeds,      *)
(* exactly one new credential, bound to the request's relying-party id and  *)
(* user handle, is persisted, and the returned authenticator data has       *)
(* rp_id_hash = hash of the request's relying-party id, user_present =      *)
(* true, user_verified = false, sign_count = 1 and an attested-credential   *)
(* block with the AAGUID and the id and public key of the credential just   *)
(* persisted.                                                               *)
(***************************************************************************)
ValidRequest(cmd) == ~Carries(cmd) /\ HasES256(cmd)

\* the invocations the claim is about
ValidApproved(p) ==
    /\ IsMakeCredential(p)
    /\ ValidRequest(req[p].cmd)
    /\ loc[p].present = "Ok(true)"

\* the response and the stored record the claim describes
C5_Claimed(p) ==
    LET cmd == req[p].cmd
        id == loc[p].credential
        ad == result[p].auth_data
    IN  /\ result[p].status = "Ok"
        /\ Stored(keys, id)
        /\ keys[id].id = id
        /\ keys[id].rp_id = cmd.rp
        /\ keys[id].user_handle = cmd.user
        /\ id_lookup[<<cmd.rp, cmd.user>>] = id
        /\ ad.rp_id_hash = Sha256(cmd.rp)
        /\ ad.user_present = TRUE
        /\ ad.user_verified = FALSE
        /\ ad.sign_count = 1
        /\ Len(ad.attested_credential_data) = 1
        /\ ad.attested_credential_data[1].aaguid = Aaguid
        /\ ad.attested_credential_data[1].credential_id = id
        /\ ad.attested_credential_data[1].credential_public_key =
              PublicKey(keys[id].private_key)

C5_NoFailureStep ==
    \A p \in Callers :
        ValidApproved(p) =>
           /\ (StoreMakeCredentialLock(p) /\ ~poisoned) => pc'[p] = "mc_body"
           /\ StoreMakeCredentialBody(p, "none") => pc'[p] = "at_lock"
           /\ (StoreAttestLock(p) /\ ~poisoned) => pc'[p] = "at_body"
           /\ StoreAttestBody(p, "none") =>
                 (pc'[p] = "done" /\ result'[p].status = "Ok")

\* a valid, approved invocation that ended with success has the claimed
\* response and stored record
C5_Response ==
    \A p \in Callers :
        (Done(p) /\ ValidApproved(p) /\ result[p].status = "Ok") =>
            C5_Claimed(p)

\* the only step of a make_credential invocation that changes storage is the
\* one put of the engine's make_credential, and it adds exactly one record,
\* under an id that had none
C5_OnePersist ==
    \A p \in Callers :
        /\ (IsMakeCredential(p) /\ pc[p] # "mc_body") => StorageUnchanged
        /\ (IsMakeCredential(p) /\ pc[p] = "mc_body" /\ pc'[p] = "at_lock") =>
              /\ loc[p].credential = 0
              /\ loc'[p].credential \notin DOMAIN keys
              /\ DOMAIN keys' = DOMAIN keys \cup {loc'[p].credential}
              /\ \A i \in DOMAIN keys : keys'[i] = keys[i]

C6_SignatureVerifiesUnderCredentialKey ==
    \A p \in Callers :
        (Done(p) /\ IsMakeCredential(p) /\ result[p].status = "Ok") =>
           Verify(result[p].auth_data.attested_credential_data[1]
                     .credential_public_key,
                  result[p].auth_data,
                  req[p].cmd.client_data_hash,
                  result[p].att_stmt.sig)

(***************************************************************************)
(* C7.  For every stored credential: attest signs (authenticator data,      *)
(* client-data hash) with the Attestation Source's key, never with the      *)
(* credential's own key, and its authenticator data includes the            *)
(* attested-credential block; assert signs with the credential's own        *)
(* private key, never with the Attestation Source's key, and its            *)
(* authenticator data has no attested-credential block.                     *)
(***************************************************************************)
C7_AttestVersusAssert ==
    \A p \in Callers :
        ( /\ Done(p) /\ result[p].status = "Ok"
          /\ req[p].op \in {"make_credential", "attest", "assert"} ) =>
           LET a == EngineArgs(p)
               ad == result[p].auth_data
               own == PublicKey(keys[a.credential_handle].private_key)
               source == PublicKey(AttestationSourceKey)
           IN  /\ Stored(keys, a.credential_handle)
               /\ req[p].op \in {"make_credential", "attest"} =>
                     /\ Verify(source, ad, a.client_data_hash,
                               result[p].att_stmt.sig)
                     /\ ~Verify(own, ad, a.client_data_hash,
                                result[p].att_stmt.sig)
                     /\ ad.attested_credential_data # <<>>
               /\ req[p].op = "assert" =>
                     /\ Verify(own, ad, a.client_data_hash, result[p].signature)
                     /\ ~Verify(source, ad, a.client_data_hash,
                                result[p].signature)
                     /\ ad.attested_credential_data = <<>>

\* assert has signed for a credential that make_credential stored
C7_Witness ==
    \E p \in Callers :
        /\ Done(p) /\ req[p].op = "assert"
        /\ result[p].status = "Ok"
        /\ Stored(keys, req[p].cmd.credential_handle)
        /\ result[p].auth_data.attested_credential_data = <<>>

(***************************************************************************)
(* C8.  make_credential changes credential storage if and only if it        *)
(* returns success: an invocation that returns an error (validation gate,   *)
(* presence gate, key generation, persist, or a failure of the attest step  *)
(* that follows generation) leaves the stored credentials and the lookup    *)
(* index as they were before the invocation.                                *)
(***************************************************************************)
\* (stated for the invocations whose presence gate approved, so that a
\* violation does not rest on what happens after a denial)
C8_ErrorLeavesStorage ==
    \A p \in Callers :
        ( /\ Done(p) /\ IsMakeCredential(p)
          /\ loc[p].present \in {"none", "Ok(true)"}
          /\ result[p].status = "Err" ) =>
           ~Stored(keys, loc[p].credential)

(***************************************************************************)
(* C9.  get_assertion for a relying-party id that has no stored credential  *)
(* returns the NoCredentials error: no success, no storage-layer error, no  *)
(* abnormal abort.                                                          *)
(***************************************************************************)
CredentialsOf(rp_id) == {i \in DOMAIN keys : keys[i].rp_id = rp_id}

C9_NoCredentials ==
    \A p \in Callers :
        ( /\ Done(p) /\ req[p].op = "get_assertion"
          /\ CredentialsOf(req[p].cmd.rp_id) = {} ) =>
           result[p] = Err("NoCredentials")

(***************************************************************************)
(* C10.  Every successful get_assertion response is preceded, within the    *)
(* same invocation, by a positive presence approval, and its authenticator  *)
(* data and signature come from the engine's assert on a credential stored  *)
(* for the requested relying-party id.                                      *)
(* No invocation of get_assertion returns a response (C10_Success is        *)
(* unreachable: the call panics at its first statement), so the formula     *)
(* below is vacuous.                                                        *)
(***************************************************************************)
C10_Success ==
    \E p \in Callers :
        Done(p) /\ req[p].op = "get_assertion" /\ result[p].status = "Ok"

C10_ApprovalPrecedesAssertion ==
    \A p \in Callers :
        (Done(p) /\ req[p].op = "get_assertion" /\ result[p].status = "Ok") =>
           /\ Len(hist[p]) = 2
           /\ hist[p][1] = "approve_make_credential"
           /\ hist[p][2] = "assert"
           /\ loc[p].present = "Ok(true)"
           /\ result[p].auth_data.user_present = TRUE
           /\ result[p].auth_data.attested_credential_data = <<>>

(***************************************************************************)
(* C11.  get_info never fails and has no side effects: after any sequence   *)
(* of make_credential, get_assertion and wink invocations it returns the    *)
(* same descriptor (versions FIDO_2_1 and U2F_V2, the single algorithm      *)
(* ES256, the AAGUID given at construction, zero remaining discoverable     *)
(* credentials), and the step that answers it changes neither the storage   *)
(* nor the engine, and calls no collaborator.                               *)
(***************************************************************************)
C11_Descriptor ==
    \A p \in Callers :
        (Done(p) /\ req[p].op = "get_info") =>
           /\ result[p].status = "Ok"
           /\ result[p].response.versions = <<"FIDO_2_1", "U2F_V2">>
           /\ result[p].response.algorithms = <<ES256>>
           /\ result[p].response.aaguid = Aaguid
           /\ result[p].response.remaining_discoverable_credentials = 0

C11_NoSideEffect ==
    \A p \in Callers :
        (pc[p] = "idle" /\ req'[p].op = "get_info") =>
           /\ Done(p)'
           /\ StorageUnchanged
           /\ UNCHANGED <<rng, lock, poisoned, hist>>

\* C11: get_info always answers Ok with the fixed descriptor and changes
\* nothing but the invocation's own result
C11_GetInfo == []C11_Descriptor /\ [][C11_NoSideEffect]_vars

\* get_info answered while a credential is stored
C11_Witness ==
    \E p \in Callers :
        /\ Done(p) /\ req[p].op = "get_info"
        /\ result[p].status = "Ok"
        /\ DOMAIN keys # {}

(***************************************************************************)
(* C12.  wink invokes the presence gate's wink exactly once; it succeeds    *)
(* exactly when the gate's wink succeeds and returns the gate's error, as   *)
(* the orchestrator's presence error, when it fails; it never touches the   *)
(* engine or the storage.                                                   *)
(***************************************************************************)
C12_Result ==
    \A p \in Callers :
        (Done(p) /\ req[p].op = "wink") =>
           /\ hist[p] = <<"wink">>
           /\ (result[p].status = "Ok") <=> (loc[p].present = "Ok")
           /\ (loc[p].present = "Err") => result[p] = Err("Presence")

C12_NoEngine ==
    \A p \in Callers :
        (req[p].op = "wink" \/ req'[p].op = "wink") =>
           /\ StorageUnchanged
           /\ UNCHANGED <<rng, lock, poisoned>>

\* C12: one wink of the gate per invocation, the gate's outcome is the
\* invocation's outcome, and no step of a wink changes engine or storage
C12_Wink == []C12_Result /\ [][C12_NoEngine]_vars

\* a wink the gate failed, with a credential stored
C12_Witness ==
    \E p \in Callers :
        /\ Done(p) /\ req[p].op = "wink"
        /\ loc[p].present = "Err"
        /\ result[p].status = "Err"
        /\ DOMAIN keys # {}

(***************************************************************************)
(* C13.  The engine's attest, and assert, called with a credential handle   *)
(* that storage does not contain returns an error value (a not-found error  *)
(* distinct from the others): it neither succeeds nor aborts abnormally.    *)
(***************************************************************************)
C13_UnknownHandleIsAnError ==
    \A p \in Callers :
        ( /\ Done(p) /\ req[p].op \in {"attest", "assert"}
          /\ ~Stored(keys, req[p].cmd.credential_handle) ) =>
           result[p].status = "Err"

(***************************************************************************)
(* C14.  Private key bytes never cross the orchestrator boundary: no value  *)
(* the engine returns to the orchestrator and no response returned to a     *)
(* caller contains the private key of a stored credential or of the         *)
(* Attestation Source.                                                      *)
(***************************************************************************)
\* the private keys the engine holds
PrivateKeyMaterial ==
    {AttestationSourceKey} \cup {keys[i].private_key : i \in DOMAIN keys}

\* the keys a returned value carries: the attested public key, the
\* certificate, and the key each signature is bound to
KeysCarried(r) ==
    IF r.status # "Ok" \/ "auth_data" \notin DOMAIN r THEN {}
    ELSE LET att == r.auth_data.attested_credential_data
         IN  {att[i].credential_public_key : i \in DOMAIN att}
             \cup (IF "att_stmt" \in DOMAIN r
                   THEN {r.att_stmt.x5c, r.att_stmt.sig.verifies_under}
                   ELSE {})
             \cup (IF "signature" \in DOMAIN r
                   THEN {r.signature.verifies_under}
                   ELSE {})

\* C14: the keys carried by any returned value are none of the private keys
\* held by the engine, and the handle the engine hands to the orchestrator
\* is the id of the stored record
C14_NoPrivateKeyReturned ==
    \A p \in Callers :
        /\ KeysCarried(result[p]) \cap PrivateKeyMaterial = {}
        /\ loc[p].credential # 0 => loc[p].credential \in DOMAIN keys

\* an assertion returned while the engine holds the keys of two credentials
C14_Witness ==
    \E p \in Callers :
        /\ Done(p) /\ result[p].status = "Ok"
        /\ req[p].op = "assert"
        /\ KeysCarried(result[p]) # {}
        /\ Cardinality(PrivateKeyMaterial) > 2

(***************************************************************************)
(* C15.  Round trip.  As claimed: after any sequence of operations, a       *)
(* credential created by make_credential appears exactly once in the result *)
(* of list_discoverable_credentials for its relying-party id, and does not  *)
(* appear in the result for any other relying-party id.                     *)
(***************************************************************************)
Count(seq, x) == Cardinality({k \in DOMAIN seq : seq[k] = x})

\* no later credential was persisted for the pair of credential i
Latest(i) ==
    \A j \in DOMAIN keys :
        ( /\ keys[j].rp_id = keys[i].rp_id
          /\ keys[j].user_handle = keys[i].user_handle ) => j <= i

Listed(p) == Done(p) /\ req[p].op = "list" /\ result[p].status = "Ok"

C15_AsClaimed ==
    \A p \in Callers : Listed(p) =>
        \A i \in DOMAIN keys :
            Count(result[p].handles, i) =
                IF keys[i].rp_id = req[p].cmd.rp_id THEN 1 ELSE 0

\* C15: a stored credential appears exactly once in the list of its relying
\* party as long as no later credential was persisted for its (relying
\* party, user handle) pair, and never in the list of another relying party
C15_LatestListedOnce ==
    \A p \in Callers : Listed(p) =>
        \A i \in DOMAIN keys :
            /\ (keys[i].rp_id = req[p].cmd.rp_id /\ Latest(i)) =>
                   Count(result[p].handles, i) = 1
            /\ keys[i].rp_id # req[p].cmd.rp_id =>
                   Count(result[p].handles, i) = 0

\* a list asked after a second credential superseded the first one of its
\* (relying party, user handle) pair
C15_Witness ==
    \E p \in Callers :
        /\ Listed(p)
        /\ result[p].handles = <<2>>
        /\ CredentialsOf(req[p].cmd.rp_id) = {1, 2}
        /\ keys[1].user_handle = keys[2].user_handle

\* the list of a relying party without credentials, asked while the other
\* relying party has one
C15_WitnessOther ==
    \E p \in Callers :
        /\ Listed(p)
        /\ DOMAIN keys # {}
        /\ CredentialsOf(req[p].cmd.rp_id) = {}

(***************************************************************************)
(* C16.  With several make_credential invocations in flight, the engine's   *)
(* lock is never held by an invocation that is suspended on the presence    *)
(* gate; the presence approval of an invocation completes strictly before   *)
(* the invocation first acquires the lock; an invocation whose gate never   *)
(* answers keeps no other invocation from its engine operations.            *)
(***************************************************************************)
\* the suspension points inside an engine operation, the lock held
EngineBodies == {"mc_body", "at_body", "as_body", "ls_body", "lsp_body"}
EngineCallsMade(p) ==
    {k \in DOMAIN hist[p] : hist[p][k] # "approve_make_credential"}

\* C16: the holder of the lock is inside an engine body, which has no await;
\* an invocation at the gate holds no lock and has made no engine call, and
\* an invocation that made one was answered by the gate first
C16_LockNotHeldAtGate ==
    /\ lock # "free" => pc[lock] \in EngineBodies
    /\ \A p \in Callers :
          /\ pc[p] = "approve" => (lock # p /\ EngineCallsMade(p) = {})
          /\ (IsMakeCredential(p) /\ (lock = p \/ EngineCallsMade(p) # {})) =>
                 /\ hist[p][1] = "approve_make_credential"
                 /\ loc[p].present # "none"

\* one invocation waits at the gate while the other holds the lock
C16_Witness ==
    \E p, q \in Callers :
        /\ pc[p] = "approve"
        /\ lock = q /\ pc[q] = "at_body" /\ IsMakeCredential(q)

(***************************************************************************)
(* C17.  Generation, persistence and signing of one make_credential are     *)
(* atomic to concurrent callers: between the persist of an invocation and   *)
(* its attestation no other caller's engine operation runs.                 *)
(***************************************************************************)
\* invocation p has persisted its credential and has not yet attested it
BetweenPersistAndAttest(p) ==
    /\ IsMakeCredential(p)
    /\ pc[p] = "at_lock"
    /\ Stored(keys, loc[p].credential)

C17_PersistAndAttestAtomic ==
    \A p, q \in Callers :
        (p # q /\ BetweenPersistAndAttest(p)) =>
           ~(lock = q /\ pc[q] \in EngineBodies)

(***************************************************************************)
(* C18.  Credential ids are unique for the lifetime of the store under any  *)
(* interleaving of invocations: every successful make_credential of the     *)
(* engine yields a fresh id and fresh key material, no stored record is     *)
(* ever overwritten, the number of stored records equals the number of      *)
(* successful generations, and the credential id attested in a response is  *)
(* the id persisted by the same invocation.                                 *)
(***************************************************************************)
\* rng counts the generations whose record the engine persisted
C18_Unique ==
    /\ Cardinality(DOMAIN keys) = rng
    /\ \A i \in DOMAIN keys : keys[i].id = i
    /\ \A i, j \in DOMAIN keys :
          i # j => keys[i].private_key # keys[j].private_key
    /\ \A p, q \in Callers :
          (p # q /\ IsMakeCredential(p) /\ IsMakeCredential(q)
                 /\ loc[p].credential # 0) =>
             loc[p].credential # loc[q].credential
    /\ \A p \in Callers :
          (Done(p) /\ IsMakeCredential(p) /\ result[p].status = "Ok") =>
             /\ Stored(keys, loc[p].credential)
             /\ result[p].auth_data.attested_credential_data[1].credential_id
                    = loc[p].credential

C18_Fresh ==
    /\ \A i \in DOMAIN keys : i \in DOMAIN keys' /\ keys'[i] = keys[i]
    /\ \A p \in Callers :
          (IsMakeCredential(p) /\ pc[p] = "mc_body" /\ pc'[p] = "at_lock") =>
             /\ loc'[p].credential \notin DOMAIN keys
             /\ DOMAIN keys' = DOMAIN keys \cup {loc'[p].credential}
             /\ rng' = rng + 1

\* C18: ids and keys are pairwise distinct, records are only ever added, one
\* per successful generation, and each response attests its own invocation's
\* credential
C18_UniqueIds == []C18_Unique /\ [][C18_Fresh]_vars

\* two invocations in flight together for the same relying party and user,
\* both answered, each with its own credential
C18_Witness ==
    \E p, q \in Callers :
        /\ p # q
        /\ Done(p) /\ IsMakeCredential(p) /\ result[p].status = "Ok"
        /\ Done(q) /\ IsMakeCredential(q) /\ result[q].status = "Ok"
        /\ req[p].cmd = req[q].cmd
        /\ loc[p].credential = 1 /\ loc[q].credential = 2

(***************************************************************************)
(* C19.  The lookup index maps each (relying party, user handle) pair to at *)
(* most one credential id, the id of the most recent persist for the pair,  *)
(* and that id always has a record in the by-id map; the records it         *)
(* superseded are not deleted and remain retrievable by their id.           *)
(***************************************************************************)
\* the ids of the records persisted for a pair
PersistedFor(pair) ==
    {i \in DOMAIN keys : keys[i].rp_id = pair[1] /\ keys[i].user_handle = pair[2]}

\* C19: a pair without record has no entry; otherwise its entry is the
\* largest (latest issued) id persisted for it; every id ever issued is still
\* stored under that id
C19_LookupIndex ==
    /\ \A pair \in DOMAIN id_lookup :
          IF PersistedFor(pair) = {} THEN id_lookup[pair] = 0
          ELSE /\ id_lookup[pair] \in PersistedFor(pair)
               /\ \A j \in PersistedFor(pair) : j <= id_lookup[pair]
    /\ \A i \in 1..rng : Stored(keys, i) /\ keys[i].id = i

\* an assertion obtained by id from a record that a later credential of the
\* same pair has superseded in the index
C19_Witness ==
    \E p \in Callers : \E pair \in DOMAIN id_lookup :
        /\ PersistedFor(pair) = {1, 2}
        /\ id_lookup[pair] = 2
        /\ Done(p) /\ req[p].op = "assert" /\ result[p].status = "Ok"
        /\ req[p].cmd.credential_handle = 1

(***************************************************************************)
(* C20.  The signature counter of a credential is monotonically             *)
(* non-decreasing across the attest and assert operations on it, in the     *)
(* order in which the operations complete.                                  *)
(***************************************************************************)
\* invocation q has returned authenticator data signed for a credential
Signed(q) ==
    /\ Done(q)
    /\ result[q].status = "Ok"
    /\ "auth_data" \in DOMAIN result[q]

\* the step in which a direct attest or assert of caller p completes
\* (the attest inside a make_credential is left out, so that a violation
\* does not rest on what runs between its persist and its attest)
CompletesSigning(p) ==
    /\ req[p].op \in {"attest", "assert"}
    /\ pc[p] \in {"at_body", "as_body"}
    /\ pc'[p] = "done"
    /\ result'[p].status = "Ok"

\* an operation that completes after another one on the same credential
\* carries a counter that is not smaller
C20_CounterStep ==
    \A p, q \in Callers :
        ( /\ p # q
          /\ Signed(q)
          /\ CompletesSigning(p)
          /\ EngineArgs(p).credential_handle = EngineArgs(q).credential_handle ) =>
           result'[p].auth_data.sign_count >= result[q].auth_data.sign_count

C20_CounterMonotone == [][C20_CounterStep]_vars

(***************************************************************************)
(* C21.  A failure of an underlying dependency during make_credential       *)
(* (storage get or put, key generation, conversion of the stored record     *)
(* into a signing key, signing by the Attestation Source) is returned to    *)
(* the caller as an error value: the engine operation in which it happens   *)
(* ends the invocation with an error, or lets it go on, and never aborts    *)
(* it abnormally.                                                           *)
(***************************************************************************)
\* the step in which an engine body of a make_credential invocation ends the
\* invocation (the lock was acquired: the Mutex was not poisoned before)
EngineBodyReturns(p) ==
    /\ IsMakeCredential(p)
    /\ lock = p
    /\ pc[p] \in {"mc_body", "at_body"}
    /\ pc'[p] = "done"

C21_Step ==
    \A p \in Callers :
        EngineBodyReturns(p) => result'[p].status \in {"Ok", "Err"}

C21_DependencyFailureIsError == [][C21_Step]_vars

(***************************************************************************)
(* C22.  A failed engine operation does not disable the engine: after any   *)
(* engine call that failed while holding the lock, the lock is free and     *)
(* usable again, so that every later engine call acquires it and runs its   *)
(* body as it would on a fresh engine with the same stored credentials.     *)
(***************************************************************************)
\* the points at which an invocation is about to acquire the engine's lock
LockPoints == {"mc_lock", "at_lock", "as_lock", "ls_lock", "lsp_lock"}

\* whatever failed before, a call that reaches the lock acquires it and
\* enters its body
C22_Step ==
    \A p \in Callers :
        (pc[p] \in LockPoints /\ pc'[p] # pc[p]) =>
           /\ lock' = p
           /\ pc'[p] \in EngineBodies
           /\ result'[p] = result[p]

C22_LockUsableAfterFailure == [][C22_Step]_vars

(***************************************************************************)
(* C23.  In every make_credential invocation the presence gate is asked at  *)
(* most once, and only when the PIN/UV, algorithm, enterprise-attestation   *)
(* and exclude-list gates have all passed; an invocation rejected by one of *)
(* those gates never prompts the user; the engine's make_credential and     *)
(* attest are called only after the gate call has returned without error,   *)
(* in that order, each at most once.                                        *)
(***************************************************************************)
CallOrder == <<"approve_make_credential", "make_credential", "attest">>

\* C23: the collaborator calls of an invocation are a prefix of gate,
\* make_credential, attest; empty for a request that some gate rejects; an
\* engine call is made only when the gate returned Ok; an invocation waits
\* at the gate only with a request no gate rejects, and before any call
C23_GateThenEngine ==
    \A p \in Callers : IsMakeCredential(p) =>
        /\ Len(hist[p]) <= Len(CallOrder)
        /\ \A k \in DOMAIN hist[p] : hist[p][k] = CallOrder[k]
        /\ FailingSteps(req[p].cmd) # {} => hist[p] = <<>>
        /\ Len(hist[p]) >= 2 => loc[p].present \in {"Ok(true)", "Ok(false)"}
        /\ loc[p].present # "none" <=> Len(hist[p]) >= 1
        /\ pc[p] = "approve" =>
              (FailingSteps(req[p].cmd) = {} /\ hist[p] = <<>>)

\* an invocation that made its three calls, and the gate's error case
C23_Witness ==
    \E p \in Callers :
        /\ Done(p) /\ IsMakeCredential(p)
        /\ result[p].status = "Ok"
        /\ hist[p] = CallOrder

C23_WitnessGateError ==
    \E p \in Callers :
        /\ Done(p) /\ IsMakeCredential(p)
        /\ loc[p].present = "Err"
        /\ hist[p] = <<"approve_make_credential">>

(***************************************************************************)
(* C24.  The outcome of make_credential does not depend on the options map, *)
(* the extensions map or the PIN/UV protocol version: two requests that     *)
(* differ only in those three fields, run from the same state with the same *)
(* presence gate answer, give the same result kind (the same error, or      *)
(* success with user_present = true and user_verified = false) and the same *)
(* effect on storage.                                                       *)
(* Checked step by step: every step of an invocation does to the result,    *)
(* the locals and the storage what it would do for any request that differs *)
(* from the invocation's own in those three fields only; as nothing else of *)
(* the state holds the request, two such invocations stay equal but for the *)
(* three fields.                                                            *)
(***************************************************************************)
Ignored == {"options", "extensions", "pin_uv_auth_protocol"}

\* the requests that differ from cmd in the three fields only
Variants(cmd) ==
    {v \in OptionCommands : \A f \in DOMAIN cmd \ Ignored : v[f] = cmd[f]}

\* the arguments of attest for request v of invocation p
AttestArgsFor(p, v) ==
    [rp_id |-> v.rp,
     credential_handle |-> loc[p].credential,
     client_data_hash |-> v.client_data_hash,
     user_present |-> TRUE,
     user_verified |-> FALSE]

C24_Step ==
    \A p \in Callers : req'[p].op = "make_credential" =>
      \A v \in Variants(req'[p].cmd) :
        /\ Invokes(p) =>
              /\ pc'[p] = (IF Gates(v) = "pass" THEN "approve" ELSE "done")
              /\ result'[p] =
                    (IF Gates(v) = "pass" THEN NoResult ELSE Err(Gates(v)))
              /\ loc'[p] = [InitLocals EXCEPT !.pk_parameters =
                                IF v.pin_uv_auth_param THEN 0
                                ELSE FirstSupported(v.pub_key_cred_params)]
              /\ StorageUnchanged
        /\ (IsMakeCredential(p) /\ pc[p] = "mc_body" /\ pc'[p] = "at_lock") =>
              LET key == Generate(v.pub_key_cred_params[loc[p].pk_parameters],
                                  v.rp, v.user, rng + 1)
              IN  /\ keys' = PutKeys(keys, key)
                  /\ id_lookup' = PutLookup(id_lookup, key)
                  /\ loc'[p].credential = key.id
        /\ (IsMakeCredential(p) /\ pc[p] = "at_body" /\ result'[p].status = "Ok") =>
              /\ result'[p].auth_data =
                    AttestAuthData(AttestArgsFor(p, v), keys[loc[p].credential])
              /\ result'[p].att_stmt =
                    AttestStatement(AttestArgsFor(p, v), keys[loc[p].credential])
              /\ result'[p].auth_data.user_present = TRUE
              /\ result'[p].auth_data.user_verified = FALSE
              /\ StorageUnchanged
        /\ (IsMakeCredential(p) /\ Done(p)' /\ result'[p].status = "Err") =>
              (StorageUnchanged /\ result'[p].error \in
                  {"InvalidParameter", "UnsupportedAlgorithm", "Presence",
                   "Unspecified", "Storage"})

\* C24: every step of a make_credential invocation is the same for all
\* requests that differ only in options, extensions and PIN/UV protocol
C24_OptionsIgnored == [][C24_Step]_vars

\* a request with a "uv" option, extensions and a protocol version succeeded
C24_Witness ==
    \E p \in Callers :
        /\ Done(p) /\ IsMakeCredential(p)
        /\ result[p].status = "Ok"
        /\ req[p].cmd.options = "uv"
        /\ req[p].cmd.extensions
        /\ req[p].cmd.pin_uv_auth_protocol = 2
        /\ result[p].auth_data.user_verified = FALSE

\* a request with options and extensions rejected by the exclude-list gate
C24_WitnessRejected ==
    \E p \in Callers :
        /\ Done(p) /\ IsMakeCredential(p)
        /\ result[p] = Err("InvalidParameter")
        /\ req[p].cmd.options = "rk"
        /\ req[p].cmd.exclude_list

(***************************************************************************)
(* C25.  Under fair scheduling and with concurrent callers, every           *)
(* make_credential invocation whose presence gate call has returned itself  *)
(* eventually returns, with success or with an error: each engine operation *)
(* releases the lock on every return path, no engine operation waits on     *)
(* anything while holding the lock, and no invocation waits for the lock    *)
(* forever.                                                                 *)
(***************************************************************************)
\* invocation p is past the presence gate and has not ended
PastGate(p) ==
    /\ IsMakeCredential(p)
    /\ pc[p] \in {"mc_lock", "mc_body", "at_lock", "at_body"}

\* the lock is held only inside an engine body, and is free whenever the
\* holder's body has ended, whichever way
C25_LockReleased ==
    /\ lock # "free" => pc[lock] \in EngineBodies
    /\ \A p \in Callers : pc[p] \notin EngineBodies => lock # p

\* every invocation past the gate ends
C25_Terminates == \A p \in Callers : PastGate(p) ~> Done(p)

\* an invocation past the gate ends only by returning success or an error
C25_EndsByReturn ==
    \A p \in Callers :
        (PastGate(p) /\ Done(p)') => result'[p].status \in {"Ok", "Err"}

\* as claimed: every invocation past the gate ends, with the lock released,
\* and ends by returning success or an error
C25_ReturnsUnderFairness ==
    /\ []C25_LockReleased
    /\ C25_Terminates
    /\ [][C25_EndsByReturn]_vars
=============================================================================
